---------------------------- MODULE Spec2Model ----------------------------
(***************************************************************************)
(* Session / authentication subsystem of the PixalPedia backend:           *)
(*   - the token codec (generatePublicAuthToken, verifyAuthToken,          *)
(*     extractUserIdFromAuthToken),                                        *)
(*   - the login registry (manage_logins) and session registry (sessions)  *)
(*     as written by the password, Google and GitHub login handlers and    *)
(*     by POST /logout/:user_id,                                           *)
(*   - the validation endpoint GET /api/auth/vailed,                       *)
(*   - the request gate authAndRateLimiterMiddleware with its per-IP       *)
(*     throttle.                                                           *)
(*                                                                         *)
(* Strings are sequences of character codes (ASCII).  Times are epoch      *)
(* milliseconds.  One atomic step is one data-store statement together     *)
(* with the synchronous code that follows it up to the next await.         *)
(***************************************************************************)
EXTENDS Integers, Sequences, FiniteSets, TLC

VARIABLES
    secret,        \* process.env.USER_TOKEN_SECRET (<<>> when unset)
    now,           \* Date.now()
    ticks,         \* number of clock advances so far
    logins,        \* table manage_logins, in insertion order
    sessions,      \* table sessions, in insertion order
    lp,            \* in-flight login handlers, one record per slot
    op,            \* in-flight POST /logout/:user_id handler
    vp,            \* in-flight GET /vailed handler
    rateLimitMap,  \* the middleware's per-IP Map
    reqLog,        \* per IP: time of its first request, number of requests sent,
                   \* lengths of the blocks imposed, requests passed in the window
                   \* (bookkeeping, read by no handler)
    nonce,         \* number of crypto.randomBytes draws (one per login)
    failures,      \* number of data-store statements that returned an error
    pending,       \* middleware calls awaiting recordBlockedIp
    ev             \* the response / event produced by the last step

vars == <<secret, now, ticks, logins, sessions, lp, op, vp, rateLimitMap,
          reqLog, nonce, failures, pending, ev>>

None == "none"

----------------------------------------------------------------------------
(* Bounds of the model *)

MaxSecretLen == 4      \* longest secret drawn in the codec specification
MaxIdLen == 2          \* longest user id drawn in the codec specification
MaxNonce == 2          \* distinct random prefixes / suffixes in the codec specification
MaxForgedLen == 3      \* longest decoded payload of a token not minted by the server

----------------------------------------------------------------------------
(* Strings *)

Alphabet == {97, 98}   \* "a", "b"

Strs(n) == UNION {[1..k -> Alphabet] : k \in 0..n}

\* String.prototype.substring(start, end): both clamped to [0, length],
\* swapped when start > end.
Clamp(i, n) == IF i < 0 THEN 0 ELSE IF i > n THEN n ELSE i

Substring(s, start, end) ==
    LET a == Clamp(start, Len(s))
        b == Clamp(end, Len(s))
        lo == IF a <= b THEN a ELSE b
        hi == IF a <= b THEN b ELSE a
    IN  SubSeq(s, lo + 1, hi)

\* String.prototype.slice(start, end) with end possibly negative: no swap.
Slice(s, start, end) ==
    LET a == IF start < 0 THEN Clamp(Len(s) + start, Len(s)) ELSE Clamp(start, Len(s))
        b == IF end < 0 THEN Clamp(Len(s) + end, Len(s)) ELSE Clamp(end, Len(s))
    IN  IF a >= b THEN <<>> ELSE SubSeq(s, a + 1, b)

StartsWith(s, p) == Len(p) <= Len(s) /\ SubSeq(s, 1, Len(p)) = p

EndsWith(s, p) == Len(p) <= Len(s) /\ SubSeq(s, Len(s) - Len(p) + 1, Len(s)) = p

----------------------------------------------------------------------------
(* Base64, as Buffer.from(s).toString("base64") and                         *)
(* Buffer.from(s, "base64").toString("utf8") compute it on ASCII data.      *)

B64Char(i) ==
    IF i < 26 THEN 65 + i
    ELSE IF i < 52 THEN 97 + (i - 26)
    ELSE IF i < 62 THEN 48 + (i - 52)
    ELSE IF i = 62 THEN 43 ELSE 47

\* -1 for a character outside the base64 alphabet ("=" included).
B64Val(c) ==
    IF c >= 65 /\ c <= 90 THEN c - 65
    ELSE IF c >= 97 /\ c <= 122 THEN c - 97 + 26
    ELSE IF c >= 48 /\ c <= 57 THEN c - 48 + 52
    ELSE IF c = 43 \/ c = 45 THEN 62
    ELSE IF c = 47 \/ c = 95 THEN 63
    ELSE -1

Pad == 61   \* "="

RECURSIVE B64Encode(_)
B64Encode(bytes) ==
    IF Len(bytes) = 0 THEN <<>>
    ELSE IF Len(bytes) = 1 THEN
        <<B64Char(bytes[1] \div 4), B64Char((bytes[1] % 4) * 16), Pad, Pad>>
    ELSE IF Len(bytes) = 2 THEN
        <<B64Char(bytes[1] \div 4),
          B64Char((bytes[1] % 4) * 16 + (bytes[2] \div 16)),
          B64Char((bytes[2] % 16) * 4), Pad>>
    ELSE
        <<B64Char(bytes[1] \div 4),
          B64Char((bytes[1] % 4) * 16 + (bytes[2] \div 16)),
          B64Char((bytes[2] % 16) * 4 + (bytes[3] \div 64)),
          B64Char(bytes[3] % 64)>>
        \o B64Encode(SubSeq(bytes, 4, Len(bytes)))

\* The sextets of the characters that belong to the alphabet; the decoder
\* skips every other character.
RECURSIVE Sextets(_)
Sextets(chars) ==
    IF Len(chars) = 0 THEN <<>>
    ELSE (IF B64Val(chars[1]) >= 0 THEN <<B64Val(chars[1])>> ELSE <<>>)
         \o Sextets(Tail(chars))

RECURSIVE SextetsToBytes(_)
SextetsToBytes(sx) ==
    IF Len(sx) < 2 THEN <<>>
    ELSE IF Len(sx) = 2 THEN <<sx[1] * 4 + (sx[2] \div 16)>>
    ELSE IF Len(sx) = 3 THEN
        <<sx[1] * 4 + (sx[2] \div 16), (sx[2] % 16) * 16 + (sx[3] \div 4)>>
    ELSE
        <<sx[1] * 4 + (sx[2] \div 16),
          (sx[2] % 16) * 16 + (sx[3] \div 4),
          (sx[3] % 4) * 64 + sx[4]>>
        \o SextetsToBytes(SubSeq(sx, 5, Len(sx)))

B64Decode(chars) == SextetsToBytes(Sextets(chars))

----------------------------------------------------------------------------
(* Token codec *)

PrefixLength == 20
SuffixLength == 16

HexChar(n) == IF n < 10 THEN 48 + n ELSE 97 + (n - 10)

\* crypto.randomBytes(10).toString("hex") / crypto.randomBytes(8).toString("hex"):
\* the n-th of the random strings the model draws from.
RandomPrefix(n) == [i \in 1..PrefixLength |-> HexChar(n)]
RandomSuffix(n) == [i \in 1..SuffixLength |-> HexChar(n)]

SecretSet(s) == s # <<>>

SplitIndex(s) == Len(s) \div 2
SecretFirst(s) == Slice(s, 0, SplitIndex(s))
SecretSecond(s) == Slice(s, SplitIndex(s), Len(s))

\* Mutant of Merged: the two halves of the secret swapped.
MergedSwapped(s, userId) == SecretSecond(s) \o userId \o SecretFirst(s)

Merged(s, userId) == SecretFirst(s) \o userId \o SecretSecond(s)

\* generatePublicAuthToken(userId), for a secret that is set.
GeneratePublicAuthToken(s, userId, prefix, suffix) ==
    prefix \o B64Encode(Merged(s, userId)) \o suffix

\* verifyAuthToken(authToken, userId)
VerifyAuthToken(s, authToken, userId) ==
    IF ~SecretSet(s) THEN FALSE
    ELSE IF Len(authToken) <= PrefixLength + SuffixLength THEN FALSE
    ELSE B64Decode(Slice(authToken, PrefixLength, -SuffixLength))
            = SecretFirst(s) \o userId \o SecretSecond(s)

\* extractUserIdFromAuthToken(authToken): [ok |-> FALSE] when it throws.
ExtractUserIdFromAuthToken(s, authToken) ==
    IF Len(authToken) <= PrefixLength + SuffixLength THEN [ok |-> FALSE, userId |-> <<>>]
    ELSE LET merged == B64Decode(Substring(authToken, PrefixLength,
                                           Len(authToken) - SuffixLength))
         IN  IF ~SecretSet(s) THEN [ok |-> FALSE, userId |-> <<>>]
             ELSE IF ~StartsWith(merged, SecretFirst(s))
                     \/ ~EndsWith(merged, SecretSecond(s))
                  THEN [ok |-> FALSE, userId |-> <<>>]
             ELSE [ok |-> TRUE,
                   userId |-> Substring(merged, Len(SecretFirst(s)),
                                        Len(merged) - Len(SecretSecond(s)))]

----------------------------------------------------------------------------
(* Configuration and identifiers *)

MaxLogins == 2         \* login attempts started in one behaviour
MaxProcs == 2          \* login handlers that may be in flight together
MaxFailures == 1       \* data-store statements that return an error in one behaviour
MaxTicks == 1          \* clock advances among logins and logouts
MaxThrottleTicks == 1  \* clock advances in the throttle specification
MaxGateBurst == 1      \* requests an IP sends to the gate among logins and logouts
MaxTsRequests == 2     \* requests an IP sends in the ts specification
MaxRequests == 52      \* requests an IP sends to the gate in the throttle specification
MaxGatedRequests == 52  \* requests an IP sends in the specification of gated routes
MaxOtherRequests == 2  \* requests the second IP sends in the interleaving specification
MaxRepeatRequests == 102  \* requests an IP sends in the repeated-violation specification

UserA == <<117, 49>>   \* "u1"
UserB == <<117, 50>>   \* "u2"
Users == {UserA, UserB}

ConfiguredSecret == <<107, 101, 121, 115>>   \* "keys"

Procs == 1..MaxProcs

Methods == {"public", "google", "github"}

\* The (user, method) pairs that log in: every method for UserA; UserB is the
\* bystander whose rows the operations on UserA must leave alone.
LoginInputs == {<<UserA, m>> : m \in Methods} \cup {<<UserB, "public">>}

LOGIN_TTL == 24 * 60 * 60 * 1000

\* crypto.randomBytes(16).toString("hex") and crypto.randomBytes(32).toString("hex")
\* of the n-th login: opaque values, compared for equality only.
RandomSessionId(n) == <<"sid", n>>
RandomSessionToken(n) == <<"stok", n>>

----------------------------------------------------------------------------
(* The two tables *)

UserRows(u) == {i \in DOMAIN logins : logins[i].user_id = u}

ActiveRows(u) == {i \in UserRows(u) : logins[i].is_logged_in}

\* Mutant of SetLoggedOut: the update inverts the flag of the user's rows.
SetLoggedOutFlip(rows, u) ==
    [i \in DOMAIN rows |->
        IF rows[i].user_id = u THEN [rows[i] EXCEPT !.is_logged_in = ~@]
        ELSE rows[i]]

\* Mutant of SetLoggedOut: the update has no filter on user_id.
SetLoggedOutEveryone(rows, u) ==
    [i \in DOMAIN rows |-> [rows[i] EXCEPT !.is_logged_in = FALSE]]

\* .from('manage_logins').update({ is_logged_in: false }).eq('user_id', u)
SetLoggedOut(rows, u) ==
    [i \in DOMAIN rows |->
        IF rows[i].user_id = u THEN [rows[i] EXCEPT !.is_logged_in = FALSE]
        ELSE rows[i]]

LoginRow(r) ==
    [user_id |-> r.user, session_id |-> r.sessionId, method |-> r.method,
     auth_token |-> r.authToken, expires_at |-> r.expiresAt, is_logged_in |-> TRUE]

SessionRow(r) ==
    [session_id |-> r.sessionId, session_token |-> r.sessionToken,
     generated_at |-> now, last_access |-> now]

----------------------------------------------------------------------------
(* Login handlers: POST /login (publicAuth.login), GET /auth/google/callback, *)
(* GET /auth/github/callback.                                                *)

\* deactivated / rowInserted: the handler's update / insert into manage_logins
\* succeeded.  overlap: the kinds of handlers on the same user's rows that
\* were in flight while this one was (bookkeeping, read by no handler).
IdleLogin ==
    [pc |-> "idle", user |-> <<>>, method |-> None, n |-> 0, authToken |-> <<>>,
     sessionId |-> <<>>, sessionToken |-> <<>>, expiresAt |-> 0,
     deactivated |-> FALSE, rowInserted |-> FALSE, overlap |-> {},
     activeBefore |-> {}]

IdleLogout == [pc |-> "idle", user |-> <<>>, overlap |-> {}]

InFlight(r) == r.pc # "idle"

\* The kinds of handlers in flight on the registry rows of user u.
Busy(u) ==
    (IF \E q \in Procs : InFlight(lp[q]) /\ lp[q].user = u THEN {"login"} ELSE {})
    \cup (IF InFlight(op) /\ op.user = u THEN {"logout"} ELSE {})

\* Bookkeeping: a handler of kind k starts on user u; every in-flight handler
\* of that user is marked as overlapped by it.
MarkLogins(u, k) ==
    [q \in Procs |->
        IF InFlight(lp[q]) /\ lp[q].user = u
        THEN [lp[q] EXCEPT !.overlap = @ \cup {k}] ELSE lp[q]]

MarkLogout(u, k) ==
    IF InFlight(op) /\ op.user = u THEN [op EXCEPT !.overlap = @ \cup {k}] ELSE op

IsOAuth(m) == m \in {"google", "github"}

\* The tokens of one login: generatePublicAuthToken + two randomBytes draws
\* + the 24-hour expiry.
WithTokens(r) ==
    [r EXCEPT !.authToken = GeneratePublicAuthToken(secret, r.user,
                                RandomPrefix(r.n), RandomSuffix(r.n)),
              !.sessionId = RandomSessionId(r.n),
              !.sessionToken = RandomSessionToken(r.n),
              !.expiresAt = now + LOGIN_TTL]

\* The answer of a login handler.  "200" and "redirect" carry the auth token
\* and the session token to the client.
HandsTokens(status) == status \in {"200", "redirect"}

LoginEvent(r, status, sessionInserted) ==
    [op |-> "login", user |-> r.user, method |-> r.method, status |-> status,
     authToken |-> IF HandsTokens(status) THEN r.authToken ELSE None,
     sessionId |-> IF HandsTokens(status) THEN r.sessionId ELSE None,
     sessionToken |-> IF HandsTokens(status) THEN r.sessionToken ELSE None,
     deactivated |-> r.deactivated, rowInserted |-> r.rowInserted,
     sessionInserted |-> sessionInserted, overlap |-> r.overlap,
     activeBefore |-> r.activeBefore]

\* The handler reaches its registry code with an authenticated user (after
\* passport.authenticate, or after bcrypt.compare accepted the password at
\* publicAuth.js 361-365; a request refused earlier touches no table).  The
\* OAuth callbacks mint the tokens first (a throw ends in the auth_failed
\* redirect); the password login mints them after the deactivating update.
\* Slots are interchangeable: a new handler takes the lowest free one.
LoginStart(p, u, m) ==
    /\ ~InFlight(lp[p])
    /\ \A q \in Procs : q < p => InFlight(lp[q])
    /\ nonce < MaxLogins
    /\ LET r0 == [IdleLogin EXCEPT !.pc = "deactivate", !.user = u, !.method = m,
                                   !.n = nonce + 1, !.overlap = Busy(u),
                                   !.activeBefore = ActiveRows(u)]
       IN  IF IsOAuth(m) /\ ~SecretSet(secret)
           THEN /\ lp' = lp
                /\ ev' = LoginEvent(r0, "auth_failed", FALSE)
                /\ op' = op
           ELSE /\ lp' = [MarkLogins(u, "login") EXCEPT
                            ![p] = IF IsOAuth(m) THEN WithTokens(r0) ELSE r0]
                /\ op' = MarkLogout(u, "login")
                /\ ev' = [op |-> "loginStep"]
    /\ nonce' = nonce + 1
    /\ UNCHANGED <<pending, secret, now, ticks, logins, sessions, vp, rateLimitMap, reqLog, failures>>

\* update manage_logins set is_logged_in = false where user_id = u; an error
\* is logged and the handler goes on.
Deactivate(p, err) ==
    /\ lp[p].pc = "deactivate"
    /\ err => failures < MaxFailures
    /\ failures' = IF err THEN failures + 1 ELSE failures
    /\ logins' = IF err THEN logins ELSE SetLoggedOut(logins, lp[p].user)
    /\ LET r == [lp[p] EXCEPT !.deactivated = ~err]
       IN  IF IsOAuth(r.method)
           THEN /\ lp' = [lp EXCEPT ![p] = [r EXCEPT !.pc = "insertLogin"]]
                /\ ev' = [op |-> "loginStep"]
           ELSE IF ~SecretSet(secret)
           THEN /\ lp' = [lp EXCEPT ![p] = IdleLogin]
                /\ ev' = LoginEvent(r, "500", FALSE)
           ELSE /\ lp' = [lp EXCEPT ![p] = [WithTokens(r) EXCEPT !.pc = "insertLogin"]]
                /\ ev' = [op |-> "loginStep"]
    /\ UNCHANGED <<pending, secret, now, ticks, sessions, op, vp, rateLimitMap, reqLog, nonce>>

\* insert into manage_logins (..., is_logged_in: true).  The password login
\* answers 500 on an error; the OAuth callbacks log it and go on.
InsertLogin(p, err) ==
    /\ lp[p].pc = "insertLogin"
    /\ err => failures < MaxFailures
    /\ failures' = IF err THEN failures + 1 ELSE failures
    /\ logins' = IF err THEN logins ELSE Append(logins, LoginRow(lp[p]))
    /\ LET r == [lp[p] EXCEPT !.rowInserted = ~err]
       IN  IF err /\ ~IsOAuth(r.method)
           THEN /\ lp' = [lp EXCEPT ![p] = IdleLogin]
                /\ ev' = LoginEvent(r, "500", FALSE)
           ELSE /\ lp' = [lp EXCEPT ![p] = [r EXCEPT !.pc = "insertSession"]]
                /\ ev' = [op |-> "loginStep"]
    /\ UNCHANGED <<pending, secret, now, ticks, sessions, op, vp, rateLimitMap, reqLog, nonce>>

\* insert into sessions; then the tokens go to the client (200 with the JSON
\* body, or the redirect carrying authToken and sessionToken).  The password
\* login answers 500 on an error; the OAuth callbacks log it and go on.
InsertSession(p, err) ==
    /\ lp[p].pc = "insertSession"
    /\ err => failures < MaxFailures
    /\ failures' = IF err THEN failures + 1 ELSE failures
    /\ sessions' = IF err THEN sessions ELSE Append(sessions, SessionRow(lp[p]))
    /\ lp' = [lp EXCEPT ![p] = IdleLogin]
    /\ ev' = LoginEvent(lp[p], IF IsOAuth(lp[p].method) THEN "redirect"
                               ELSE IF err THEN "500" ELSE "200", ~err)
    /\ UNCHANGED <<pending, secret, now, ticks, logins, op, vp, rateLimitMap, reqLog, nonce>>

----------------------------------------------------------------------------
(* POST /logout/:user_id *)

LogoutEvent(r, status) ==
    [op |-> "logout", user |-> r.user, status |-> status, overlap |-> r.overlap]

\* Mutant of NoActiveSession: the result of the select is never taken as empty.
NoActiveSessionNever(data) == FALSE

\* !data || data.length === 0
NoActiveSession(data) == data = {}

\* select session_id from manage_logins where user_id = u and is_logged_in
LogoutFetch(u, err) ==
    /\ ~InFlight(op)
    /\ err => failures < MaxFailures
    /\ failures' = IF err THEN failures + 1 ELSE failures
    /\ LET r0 == [pc |-> "update", user |-> u, overlap |-> Busy(u)]
       IN  IF err
           THEN /\ op' = IdleLogout
                /\ lp' = lp
                /\ ev' = LogoutEvent(r0, "500")
           ELSE IF NoActiveSession(ActiveRows(u))
           THEN /\ op' = IdleLogout
                /\ lp' = lp
                /\ ev' = LogoutEvent(r0, "400")
           ELSE /\ op' = r0
                /\ lp' = MarkLogins(u, "logout")
                /\ ev' = [op |-> "logoutStep"]
    /\ UNCHANGED <<pending, secret, now, ticks, logins, sessions, vp, rateLimitMap, reqLog, nonce>>

\* update manage_logins set is_logged_in = false
\*   where user_id = u and is_logged_in
LogoutUpdate(err) ==
    /\ op.pc = "update"
    /\ err => failures < MaxFailures
    /\ failures' = IF err THEN failures + 1 ELSE failures
    /\ logins' = IF err THEN logins ELSE SetLoggedOut(logins, op.user)
    /\ op' = IdleLogout
    /\ ev' = LogoutEvent(op, IF err THEN "500" ELSE "200")
    /\ UNCHANGED <<pending, secret, now, ticks, sessions, lp, vp, rateLimitMap, reqLog, nonce>>

----------------------------------------------------------------------------
(* The request gate: authAndRateLimiterMiddleware *)

IPs == {"ip1"}

BLOCK_INCREMENT == 5 * 60 * 1000
REQUEST_LIMIT == 50
TIME_WINDOW == 15 * 1000
TS_MAX_AGE == 20 * 1000

\* recordBlockedIp(ip, route, blockStart): the multiplier is fixed to 1.
RecordBlockedIp(blockStart) ==
    LET multiplier == 1
    IN  blockStart + BLOCK_INCREMENT * multiplier

\* rateLimitMap.get(ip) || { firstRequestTime: now, requestCount: 0, blockUntil: 0 }
RateData(ip) ==
    IF ip \in DOMAIN rateLimitMap THEN rateLimitMap[ip]
    ELSE [firstRequestTime |-> now, requestCount |-> 0, blockUntil |-> 0]

\* Mutant of OverLimit: one request more is let through.
OverLimitLax(requestCount) == requestCount > REQUEST_LIMIT + 1

\* Mutant of OverLimit: the request that reaches the limit is refused.
OverLimitInclusive(requestCount) == requestCount >= REQUEST_LIMIT

OverLimit(requestCount) == requestCount > REQUEST_LIMIT

\* Mutant of WindowExpired: a window, once opened, never expires.
WindowNeverExpires(rateData) == FALSE

\* now - rateData.firstRequestTime > TIME_WINDOW
WindowExpired(rateData) == now - rateData.firstRequestTime > TIME_WINDOW

\* now < (rateData.blockUntil || 0)
Blocked(rateData) == now < rateData.blockUntil

\* Step 1 of the middleware.  pass: the request goes on to step 2;
\* stored: rateLimitMap.set(ip, rateData) was reached.
RateLimit(rateData) ==
    IF Blocked(rateData)
    THEN [pass |-> FALSE, stored |-> FALSE, rateData |-> rateData]
    ELSE IF WindowExpired(rateData)
    THEN [pass |-> TRUE, stored |-> TRUE,
          rateData |-> [rateData EXCEPT !.firstRequestTime = now, !.requestCount = 1]]
    ELSE LET counted == [rateData EXCEPT !.requestCount = @ + 1]
         IN  IF OverLimit(counted.requestCount)
             THEN [pass |-> FALSE, stored |-> TRUE,
                   rateData |-> [counted EXCEPT !.blockUntil = RecordBlockedIp(now)]]
             ELSE [pass |-> TRUE, stored |-> TRUE, rateData |-> counted]

\* URLs are sequences of one-character strings.
ApiPrefix == <<"/", "a", "p", "i", "/">>
WallpapersRoute == ApiPrefix \o <<"w", "a", "l", "l", "p", "a", "p", "e", "r", "s">>
UserRoute == ApiPrefix \o <<"u", "s", "e", "r", "/">>

PROTECTED_ROUTES ==
    { WallpapersRoute,
      UserRoute \o <<"p", "r", "o", "f", "i", "l", "e">>,
      UserRoute \o <<"s", "e", "t", "t", "i", "n", "g", "s">>,
      UserRoute \o <<"f", "a", "v", "o", "r", "i", "t", "e", "s">> }

IsProtectedRoute(url) == \E route \in PROTECTED_ROUTES : StartsWith(url, route)

\* String.prototype.toLowerCase on the header values the model sends.
ToLowerCase(v) ==
    CASE v = "FALSE" -> "false"
      [] v = "Public" -> "public"
      [] OTHER -> v

\* "Bearer "
Bearer == <<66, 101, 97, 114, 101, 114, 32>>

\* The ts header after Buffer.from(ts, "base64") and JSON.parse:
\*   json = "missing"      no ts header and no ts query parameter
\*   json = "unparsable"   JSON.parse throws
\*   json = "null"         the JSON value null
\*   json = "scalar"       a JSON number, string or boolean
\*   json = "object"       an object; hasGeneratedAt tells whether it has a
\*                         numeric generatedAt
Ts(json, hasGeneratedAt, generatedAt) ==
    [json |-> json, hasGeneratedAt |-> hasGeneratedAt, generatedAt |-> generatedAt]

\* Step 2: the status the middleware answers with, "pass" when it goes on.
\* Reading .generatedAt of null throws inside the outer try (500); a missing
\* generatedAt makes the subtraction NaN and the comparison false.
TsCheck(ts) ==
    IF ts.json = "missing" THEN [status |-> "400", error |-> "Missing TS token"]
    ELSE IF ts.json = "unparsable" THEN [status |-> "400", error |-> "Invalid TS token"]
    ELSE IF ts.json = "null" THEN [status |-> "500", error |-> "Internal server error."]
    ELSE IF ts.json = "object" /\ ts.hasGeneratedAt
            /\ now - ts.generatedAt > TS_MAX_AGE
    THEN [status |-> "401", error |-> "Expired TS token. Please refresh or re-login."]
    ELSE [status |-> "pass", error |-> None]

\* Mutant of GetLoginRecord: no row is found.
GetLoginRecordNone(userId, authToken) ==
    [found |-> FALSE, session_id |-> None, is_logged_in |-> FALSE]

\* Placeholder lookups of the middleware: they read no table.
GetLoginRecord(userId, authToken) ==
    [found |-> TRUE, session_id |-> "sample-session-id-from-db", is_logged_in |-> TRUE]

GetSessionRecord(sessionId, sessionToken) == [found |-> TRUE]

\* An answer of the middleware that is not the authenticated next().
Unauthenticated(status, error) ==
    [status |-> status, error |-> error, userId |-> <<>>, sessionId |-> None,
     authenticated |-> FALSE]

\* Steps 3 and 4, for a request req: url, and the headers ts, login,
\* authentication, authorization, sessionToken (x-session-token), userId
\* (x-user-id).  An absent login / authentication header is None; an absent
\* authorization / x-session-token / x-user-id header is the empty string
\* (both are falsy).  status "next": next() was called.
AuthCheck(req) ==
    LET routeRequiresAuth == IsProtectedRoute(req.url)
        loginFalse == req.login # None /\ ToLowerCase(req.login) = "false"
        authPublic == req.authentication # None
                        /\ ToLowerCase(req.authentication) = "public"
    IN
    IF ~routeRequiresAuth \/ loginFalse \/ authPublic
    THEN IF routeRequiresAuth /\ loginFalse
         THEN Unauthenticated("401", "Authentication required")
         ELSE Unauthenticated("next", None)
    ELSE IF ~(req.authorization # <<>> /\ StartsWith(req.authorization, Bearer))
    THEN Unauthenticated("401", "Missing or malformed Authorization header")
    ELSE LET authToken == Slice(req.authorization, 7, Len(req.authorization))
             extracted == ExtractUserIdFromAuthToken(secret, authToken)
         IN
         IF req.sessionToken = <<>>
         THEN Unauthenticated("401", "Missing X-Session-Token header")
         ELSE IF ~extracted.ok
         THEN Unauthenticated("401", "Invalid auth token")
         ELSE IF req.userId # <<>> /\ req.userId # extracted.userId
         THEN Unauthenticated("401", "User identification mismatch")
         ELSE LET loginRecord == GetLoginRecord(extracted.userId, authToken)
                  sessionRecord == GetSessionRecord(loginRecord.session_id,
                                                    req.sessionToken)
              IN
              IF ~loginRecord.found \/ ~loginRecord.is_logged_in
              THEN Unauthenticated("401", "Session expired or user not logged in")
              ELSE IF ~sessionRecord.found
              THEN Unauthenticated("401", "Invalid session")
              ELSE [status |-> "next", error |-> None,
                    userId |-> extracted.userId,
                    sessionId |-> loginRecord.session_id,
                    authenticated |-> TRUE]

\* Number of requests ip has sent.
Sent(ip) == IF ip \in DOMAIN reqLog THEN reqLog[ip].sent ELSE 0

\* The lengths of the blocks imposed on ip so far, oldest first.
Blocks(ip) == IF ip \in DOMAIN reqLog THEN reqLog[ip].blocks ELSE <<>>

\* The number of requests of ip that passed step 1 since the window of ip
\* was last started (requestCount set to 1).
Passed(ip) == IF ip \in DOMAIN reqLog THEN reqLog[ip].passed ELSE 0

\* The whole middleware for one request from ip.  step: the step that
\* answered ("auth" also when next() was called).
Gate(ip, req) ==
    LET limited == RateLimit(RateData(ip))
        tsAnswer == TsCheck(req.ts)
        step == IF ~limited.pass THEN "throttle"
                ELSE IF tsAnswer.status # "pass" THEN "ts" ELSE "auth"
        answer == IF ~limited.pass
                  THEN Unauthenticated("429", "Too many requests. Your IP is temporarily blocked.")
                  ELSE IF tsAnswer.status # "pass"
                  THEN Unauthenticated(tsAnswer.status, tsAnswer.error)
                  ELSE AuthCheck(req)
    IN  /\ rateLimitMap' = IF limited.stored
                           THEN (ip :> limited.rateData) @@ rateLimitMap
                           ELSE rateLimitMap
        /\ reqLog' = (ip :> [first |-> IF ip \in DOMAIN reqLog
                                        THEN reqLog[ip].first ELSE now,
                             sent |-> Sent(ip) + 1,
                             blocks |-> IF limited.stored /\ ~limited.pass
                                        THEN Append(Blocks(ip),
                                                    limited.rateData.blockUntil - now)
                                        ELSE Blocks(ip),
                             passed |-> IF ~limited.pass THEN Passed(ip)
                                        ELSE IF limited.rateData.requestCount = 1
                                        THEN 1
                                        ELSE Passed(ip) + 1]) @@ reqLog
        /\ ev' = [op |-> "gate", ip |-> ip, req |-> req,
                  rateBefore |-> RateData(ip), step |-> step,
                  status |-> answer.status, error |-> answer.error,
                  userId |-> answer.userId, sessionId |-> answer.sessionId,
                  authenticated |-> answer.authenticated]
        /\ UNCHANGED <<pending, secret, now, ticks, logins, sessions, lp, op, vp, nonce, failures>>

\* The paths the application hands to their routes without the middleware.
AuthPrefix == <<"/", "a", "u", "t", "h", "/">>
GooglePath == AuthPrefix \o <<"g", "o", "o", "g", "l", "e">>
GithubPath == AuthPrefix \o <<"g", "i", "t", "h", "u", "b">>
CallbackSuffix == <<"/", "c", "a", "l", "l", "b", "a", "c", "k">>
UserSuffix == <<"/", "u", "s", "e", "r">>

authExceptionPaths ==
    { ApiPrefix \o <<"g", "e", "t", "-", "p", "u", "b", "l", "i", "c", "-",
                     "t", "o", "k", "e", "n">>,
      GooglePath, GithubPath,
      GooglePath \o CallbackSuffix, GithubPath \o CallbackSuffix,
      GooglePath \o UserSuffix, GithubPath \o UserSuffix }

\* The application-level middleware: a request whose path is one of
\* authExceptionPaths goes to its route at once; every other request goes
\* through authAndRateLimiterMiddleware.
AppMiddleware(ip, req) ==
    IF req.url \in authExceptionPaths
    THEN /\ ev' = [op |-> "exempt", ip |-> ip, req |-> req,
                   rateBefore |-> RateData(ip), status |-> "next"]
         /\ UNCHANGED <<pending, secret, now, ticks, logins, sessions, lp, op, vp,
                        rateLimitMap, reqLog, nonce, failures>>
    ELSE Gate(ip, req)

\* The middleware with its await: the call of recordBlockedIp suspends the
\* request, and other requests may run before it resumes.  rateData is the
\* object held by rateLimitMap (an over-limit count is only reached by an
\* object that was stored before), so requestCount++ shows in the map at
\* once and blockUntil is written when the request resumes.
OverLimitNext(ip) ==
    /\ ~Blocked(RateData(ip))
    /\ ~WindowExpired(RateData(ip))
    /\ OverLimit(RateData(ip).requestCount + 1)

GateStart(ip, req) ==
    IF OverLimitNext(ip)
    THEN /\ rateLimitMap' = (ip :> [RateData(ip) EXCEPT !.requestCount = @ + 1])
                                @@ rateLimitMap
         /\ pending' = pending \cup {[ip |-> ip, req |-> req, blockStart |-> now,
                                       n |-> Sent(ip) + 1]}
         /\ reqLog' = (ip :> [reqLog[ip] EXCEPT !.sent = @ + 1]) @@ reqLog
         /\ ev' = [op |-> "gateStep", ip |-> ip]
         /\ UNCHANGED <<secret, now, ticks, logins, sessions, lp, op, vp, nonce, failures>>
    ELSE Gate(ip, req)

\* recordBlockedIp has returned: rateData.blockUntil = newBlockUntil,
\* rateLimitMap.set(ip, rateData), and the 429 answer.
GateBlockWritten(k) ==
    /\ k \in pending
    /\ pending' = pending \ {k}
    /\ rateLimitMap' = [rateLimitMap EXCEPT
                            ![k.ip].blockUntil = RecordBlockedIp(k.blockStart)]
    /\ reqLog' = [reqLog EXCEPT
                     ![k.ip].blocks = Append(@, RecordBlockedIp(k.blockStart) - k.blockStart)]
    /\ ev' = [op |-> "gate", ip |-> k.ip, req |-> k.req,
              rateBefore |-> rateLimitMap[k.ip], step |-> "throttle",
              status |-> "429",
              error |-> "Too many requests. Your IP is temporarily blocked.",
              userId |-> <<>>, sessionId |-> None, authenticated |-> FALSE]
    /\ UNCHANGED <<secret, now, ticks, logins, sessions, lp, op, vp, nonce, failures>>

----------------------------------------------------------------------------
(* GET /vailed *)

IdleVailed == [pc |-> "idle"]

VailedEvent(req, status, message) ==
    [op |-> "vailed", req |-> req, status |-> status, message |-> message]

\* .from('manage_logins').select(...).eq('user_id', userId)
\*    .eq('auth_token', authToken).eq('is_logged_in', true)
LoginRowsOf(userId, authToken) ==
    {i \in DOMAIN logins : /\ logins[i].user_id = userId
                           /\ logins[i].auth_token = authToken
                           /\ logins[i].is_logged_in}

\* .from('sessions').select('id').eq('session_id', sessionId)
\*    .eq('session_token', sessionToken)
SessionRowsOf(sessionId, sessionToken) ==
    {i \in DOMAIN sessions : /\ sessions[i].session_id = sessionId
                             /\ sessions[i].session_token = sessionToken}

\* .single(): an error unless exactly one row matches.
Single(rows) == Cardinality(rows) = 1

\* The header checks, verifyAuthToken and the query on manage_logins.
VailedLogin(req, err) ==
    /\ ~InFlight(vp)
    /\ err => failures < MaxFailures
    /\ failures' = IF err THEN failures + 1 ELSE failures
    /\ LET authToken == IF req.authorization # <<>> /\ StartsWith(req.authorization, Bearer)
                        THEN Slice(req.authorization, 7, Len(req.authorization))
                        ELSE <<>>
           found == LoginRowsOf(req.userId, authToken)
       IN  IF req.userId = <<>>
           THEN /\ ev' = VailedEvent(req, "401", "User ID missing.")
                /\ vp' = vp
           ELSE IF authToken = <<>> \/ req.sessionToken = <<>>
           THEN /\ ev' = VailedEvent(req, "401", "Authentication tokens missing.")
                /\ vp' = vp
           ELSE IF ~VerifyAuthToken(secret, authToken, req.userId)
           THEN /\ ev' = VailedEvent(req, "401", "Invalid authentication token.")
                /\ vp' = vp
           ELSE IF err \/ ~Single(found)
           THEN /\ ev' = VailedEvent(req, "401", "Login session not found or inactive.")
                /\ vp' = vp
           ELSE /\ ev' = [op |-> "vailedStep"]
                /\ vp' = [pc |-> "session", req |-> req,
                          loginData |-> logins[CHOOSE i \in found : TRUE]]
    /\ UNCHANGED <<pending, secret, now, ticks, logins, sessions, lp, op, rateLimitMap, reqLog, nonce>>

\* The expiry check and the query on sessions.
VailedSession(err) ==
    /\ vp.pc = "session"
    /\ err => failures < MaxFailures
    /\ failures' = IF err THEN failures + 1 ELSE failures
    /\ vp' = IdleVailed
    /\ ev' = IF now > vp.loginData.expires_at
             THEN VailedEvent(vp.req, "401", "Authentication token expired.")
             ELSE IF err \/ ~Single(SessionRowsOf(vp.loginData.session_id,
                                                  vp.req.sessionToken))
             THEN VailedEvent(vp.req, "401", "Invalid session record.")
             ELSE VailedEvent(vp.req, "200", "Session is valid.")
    /\ UNCHANGED <<pending, secret, now, ticks, logins, sessions, lp, op, rateLimitMap, reqLog, nonce>>

----------------------------------------------------------------------------
(* The clock *)

\* Date.now() advances by delta between two steps, at most max times in one
\* behaviour.
Tick(delta, max) ==
    /\ ticks < max
    /\ now' = now + delta
    /\ ticks' = ticks + 1
    /\ ev' = [op |-> "tick"]
    /\ UNCHANGED <<pending, secret, logins, sessions, lp, op, vp, rateLimitMap, reqLog, nonce, failures>>

----------------------------------------------------------------------------
(* Requests *)

Request(url, ts, login, authentication, authorization, sessionToken, userId) ==
    [url |-> url, ts |-> ts, login |-> login, authentication |-> authentication,
     authorization |-> authorization, sessionToken |-> sessionToken,
     userId |-> userId]

\* A ts token generated at the time of the request.
FreshTs == Ts("object", TRUE, now)

\* The credentials the logins so far have issued: the auth token of a row of
\* manage_logins with the session token of its session.
Issued ==
    {[user |-> logins[i].user_id, authToken |-> logins[i].auth_token,
      sessionToken |-> sessions[j].session_token] :
        <<i, j>> \in {ij \in (DOMAIN logins) \X (DOMAIN sessions) :
                        logins[ij[1]].session_id = sessions[ij[2]].session_id}}

\* A session token no login has issued.
StrayToken == RandomSessionToken(0)

VailedUrl == ApiPrefix \o <<"a", "u", "t", "h", "/", "v", "a", "i", "l", "e", "d">>

\* Requests to a protected route that present issued credentials, with a
\* fresh ts token and the matching x-user-id: as issued, and with a session
\* token that was never issued.
ReplayRequests ==
    UNION {
        { Request(WallpapersRoute, FreshTs, None, None, Bearer \o c.authToken,
                  c.sessionToken, c.user),
          Request(WallpapersRoute, FreshTs, None, None, Bearer \o c.authToken,
                  StrayToken, c.user) } : c \in Issued }

\* Requests to a protected route that present no credentials, with a fresh
\* ts token: one with no other header, one with "login: FALSE", one with
\* "authentication: Public".
BareRequests ==
    { Request(WallpapersRoute, FreshTs, None, None, <<>>, <<>>, <<>>),
      Request(WallpapersRoute, FreshTs, "FALSE", None, <<>>, <<>>, <<>>),
      Request(WallpapersRoute, FreshTs, None, "Public", <<>>, <<>>, <<>>) }

GateRequests == ReplayRequests \cup BareRequests

\* Requests to /vailed: issued credentials as issued, and with a session
\* token that was never issued.
VailedRequests ==
    UNION {
        { Request(VailedUrl, FreshTs, None, None, Bearer \o c.authToken,
                  c.sessionToken, c.user),
          Request(VailedUrl, FreshTs, None, None, Bearer \o c.authToken,
                  StrayToken, c.user) } : c \in Issued }

\* Requests to a route that requires no authentication, with a ts token that
\* is fresh, missing, or older than the maximum age.
TsTokens == { FreshTs, Ts("missing", FALSE, 0), Ts("object", TRUE, now - TS_MAX_AGE - 1) }

TsRequests == { Request(VailedUrl, ts, None, None, <<>>, <<>>, <<>>) : ts \in TsTokens }

\* Every kind of ts token: generated now, at time 0, exactly TS_MAX_AGE ago
\* and one millisecond earlier, and the tokens that hold no generatedAt.
AllTsTokens ==
    { FreshTs, Ts("object", TRUE, 0),
      Ts("object", TRUE, now - TS_MAX_AGE), Ts("object", TRUE, now - TS_MAX_AGE - 1),
      Ts("missing", FALSE, 0), Ts("unparsable", FALSE, 0), Ts("null", FALSE, 0),
      Ts("scalar", FALSE, 0), Ts("object", FALSE, 0) }

\* Requests with any ts token: to a route that requires no authentication,
\* and to a protected route with no credentials.
AllTsRequests ==
    { Request(url, ts, None, None, <<>>, <<>>, <<>>) :
        url \in {VailedUrl, WallpapersRoute}, ts \in AllTsTokens }

\* Requests to the OAuth callback, which carry no header of the gate.
OAuthRequests ==
    { Request(GooglePath \o CallbackSuffix, Ts("missing", FALSE, 0), None, None,
              <<>>, <<>>, <<>>) }

----------------------------------------------------------------------------
(* Specifications of the registry *)

Init ==
    /\ secret \in {<<>>, ConfiguredSecret}
    /\ now = 0
    /\ ticks = 0
    /\ logins = <<>>
    /\ sessions = <<>>
    /\ lp = [p \in Procs |-> IdleLogin]
    /\ op = IdleLogout
    /\ vp = IdleVailed
    /\ rateLimitMap = <<>>
    /\ reqLog = <<>>
    /\ nonce = 0
    /\ failures = 0
    /\ pending = {}
    /\ ev = [op |-> "init"]

\* Spec: any number of login handlers and a logout handler in flight
\* together, in any interleaving of their statements; no statement fails.
Next ==
    \/ \E p \in Procs, um \in LoginInputs : LoginStart(p, um[1], um[2])
    \/ \E p \in Procs : Deactivate(p, FALSE)
    \/ \E p \in Procs : InsertLogin(p, FALSE)
    \/ \E p \in Procs : InsertSession(p, FALSE)
    \/ \E u \in Users : LogoutFetch(u, FALSE)
    \/ LogoutUpdate(FALSE)

Spec == Init /\ [][Next]_vars

\* SpecFaults: one login handler at a time (a logout may still interleave
\* with it); any statement may return an error.
NextFaults ==
    \/ \E um \in LoginInputs : LoginStart(1, um[1], um[2])
    \/ \E err \in BOOLEAN : Deactivate(1, err)
    \/ \E err \in BOOLEAN : InsertLogin(1, err)
    \/ \E err \in BOOLEAN : InsertSession(1, err)
    \/ \E u \in Users, err \in BOOLEAN : LogoutFetch(u, err)
    \/ \E err \in BOOLEAN : LogoutUpdate(err)

SpecFaults == Init /\ [][NextFaults]_vars

\* SpecAccess: logins (one handler at a time) and logouts of one user, and,
\* between two handlers, the clock and requests to the gate that present the
\* credentials issued so far; no statement fails.
AccessLogins == {<<UserA, "public">>, <<UserA, "google">>}

AccessDeltas == {LOGIN_TTL, LOGIN_TTL + 1}

InitAccess == Init /\ secret = ConfiguredSecret

\* No login or logout handler is in flight.
Quiet == ~InFlight(lp[1]) /\ ~InFlight(op)

NextAccess ==
    \/ \E um \in AccessLogins : LoginStart(1, um[1], um[2])
    \/ Deactivate(1, FALSE)
    \/ InsertLogin(1, FALSE)
    \/ InsertSession(1, FALSE)
    \/ LogoutFetch(UserA, FALSE)
    \/ LogoutUpdate(FALSE)
    \/ \E delta \in AccessDeltas : Quiet /\ Tick(delta, MaxTicks)
    \/ \E ip \in IPs : /\ Quiet
                       /\ Sent(ip) < MaxGateBurst
                       /\ \E req \in GateRequests : Gate(ip, req)

SpecAccess == InitAccess /\ [][NextAccess]_vars

\* SpecVailed: logins (one handler at a time) and logouts of one user, the
\* clock, and requests to /vailed that present the credentials issued so
\* far, in any interleaving; no statement fails.
NextVailed ==
    \/ \E um \in AccessLogins : LoginStart(1, um[1], um[2])
    \/ Deactivate(1, FALSE)
    \/ InsertLogin(1, FALSE)
    \/ InsertSession(1, FALSE)
    \/ LogoutFetch(UserA, FALSE)
    \/ LogoutUpdate(FALSE)
    \/ \E delta \in AccessDeltas : Tick(delta, MaxTicks)
    \/ \E req \in VailedRequests : VailedLogin(req, FALSE)
    \/ VailedSession(FALSE)

SpecVailed == InitAccess /\ [][NextVailed]_vars

\* SpecThrottle: requests of one IP to a route that requires no
\* authentication, which differ in their ts token only, and to the OAuth
\* callback; and the clock.
ThrottleDeltas == {1, TIME_WINDOW, BLOCK_INCREMENT, BLOCK_INCREMENT + 1}

InitThrottle == Init /\ secret = ConfiguredSecret

NextThrottle ==
    \/ \E delta \in ThrottleDeltas : Tick(delta, MaxThrottleTicks)
    \/ \E ip \in IPs : /\ Sent(ip) < MaxRequests
                       /\ \E req \in TsRequests \cup OAuthRequests :
                                AppMiddleware(ip, req)

SpecThrottle == InitThrottle /\ [][NextThrottle]_vars

\* SpecTs: requests of one IP with every kind of ts token, and the clock.
TsDeltas == {TS_MAX_AGE, TS_MAX_AGE + 1}

NextTs ==
    \/ \E delta \in TsDeltas : Tick(delta, MaxTicks)
    \/ \E ip \in IPs : /\ Sent(ip) < MaxTsRequests
                       /\ \E req \in AllTsRequests : Gate(ip, req)

SpecTs == InitThrottle /\ [][NextTs]_vars

\* SpecVailedFaults: logins of one user (one handler at a time, no failing
\* statement) and requests to /vailed whose queries may return an error.
NextVailedFaults ==
    \/ \E um \in AccessLogins : LoginStart(1, um[1], um[2])
    \/ Deactivate(1, FALSE)
    \/ InsertLogin(1, FALSE)
    \/ InsertSession(1, FALSE)
    \/ \E req \in VailedRequests, err \in BOOLEAN : VailedLogin(req, err)
    \/ \E err \in BOOLEAN : VailedSession(err)

SpecVailedFaults == InitAccess /\ [][NextVailedFaults]_vars

\* Requests to a protected route that present issued credentials with the
\* x-user-id of another user, with and without the authentication header.
MismatchRequests ==
    { Request(WallpapersRoute, FreshTs, None, authentication, Bearer \o c.authToken,
              c.sessionToken, CHOOSE u \in Users : u # c.user) :
        c \in Issued, authentication \in {None, "Public"} }

\* SpecMismatch: logins (one handler at a time) and logouts of one user and,
\* between two handlers, requests to the gate that present the credentials
\* issued so far as issued or with another user's id; no statement fails.
NextMismatch ==
    \/ \E um \in AccessLogins : LoginStart(1, um[1], um[2])
    \/ Deactivate(1, FALSE)
    \/ InsertLogin(1, FALSE)
    \/ InsertSession(1, FALSE)
    \/ LogoutFetch(UserA, FALSE)
    \/ LogoutUpdate(FALSE)
    \/ \E ip \in IPs : /\ Quiet
                       /\ Sent(ip) < MaxGateBurst
                       /\ \E req \in ReplayRequests \cup MismatchRequests : Gate(ip, req)

SpecMismatch == InitAccess /\ [][NextMismatch]_vars

\* app.post('/login', login) and app.use('/api', logoutRoutes) with
\* router.post("/logout/:user_id"), for user u1.
LoginUrl == <<"/", "l", "o", "g", "i", "n">>
LogoutUrl == ApiPrefix \o <<"l", "o", "g", "o", "u", "t", "/", "u", "1">>

\* Requests to the login and logout routes with a fresh, a missing and a
\* stale ts token, and to the OAuth callback.
GatedRequests ==
    { Request(url, ts, None, None, <<>>, <<>>, <<>>) :
        url \in {LoginUrl, LogoutUrl}, ts \in TsTokens }
    \cup OAuthRequests

\* Mutant of CallsNext: the next handler of the chain runs after a denial too.
CallsNextAlways(status) == TRUE

\* The middleware ends a request with return res.status(...).json(...) or
\* hands it on with next(); the route handler runs in the second case only.
CallsNext(status) == status = "next"

\* The request the application has just handed on is a request to url.
HandedOn(url) ==
    /\ ev.op \in {"gate", "exempt"}
    /\ ev.req.url = url
    /\ CallsNext(ev.status)

\* SpecGated: one IP sends requests to the login route, the logout route and
\* the OAuth callback through the application's middleware chain; the
\* handler of a route starts on the requests that are handed on, and then
\* runs statement by statement; no statement fails.
NextGated ==
    \/ \E ip \in IPs : /\ Sent(ip) < MaxGatedRequests
                       /\ \E req \in GatedRequests : AppMiddleware(ip, req)
    \/ HandedOn(LoginUrl) /\ LoginStart(1, UserA, "public")
    \/ HandedOn(GooglePath \o CallbackSuffix) /\ LoginStart(1, UserA, "google")
    \/ HandedOn(LogoutUrl) /\ LogoutFetch(UserA, FALSE)
    \/ Deactivate(1, FALSE)
    \/ InsertLogin(1, FALSE)
    \/ InsertSession(1, FALSE)
    \/ LogoutUpdate(FALSE)

SpecGated == InitAccess /\ [][NextGated]_vars

\* Requests to a protected route and to /vailed that present the auth token
\* of one login with the session token of another login.
CrossRequests ==
    { Request(x[1], FreshTs, None, None, Bearer \o x[2].authToken,
              x[3].sessionToken, x[2].user) :
        x \in {y \in {WallpapersRoute, VailedUrl} \X Issued \X Issued :
                    y[2].sessionToken # y[3].sessionToken} }

CrossLogins == {<<UserA, "public">>, <<UserB, "google">>}

\* SpecCross: logins of two users (one handler at a time) and, between two
\* logins, requests to the gate and to /vailed that present issued
\* credentials as issued or pair the auth token of one login with the session
\* token of another; no statement fails.
NextCross ==
    \/ \E um \in CrossLogins : LoginStart(1, um[1], um[2])
    \/ Deactivate(1, FALSE)
    \/ InsertLogin(1, FALSE)
    \/ InsertSession(1, FALSE)
    \/ \E ip \in IPs : /\ Quiet
                       /\ Sent(ip) < MaxGateBurst
                       /\ \E req \in {r \in CrossRequests \cup ReplayRequests :
                                        r.url = WallpapersRoute} : Gate(ip, req)
    \/ /\ Quiet
       /\ \E req \in {r \in CrossRequests : r.url = VailedUrl} \cup VailedRequests :
                VailedLogin(req, FALSE)
    \/ VailedSession(FALSE)

SpecCross == InitAccess /\ [][NextCross]_vars

\* SpecRepeat: an IP that keeps sending the same request, and a clock that
\* moves past the end of a block.
RepeatRequest == Request(VailedUrl, FreshTs, None, None, <<>>, <<>>, <<>>)

NextRepeat ==
    \/ Tick(BLOCK_INCREMENT + 1, MaxThrottleTicks)
    \/ \E ip \in IPs : /\ Sent(ip) < MaxRepeatRequests
                       /\ Gate(ip, RepeatRequest)

SpecRepeat == InitThrottle /\ [][NextRepeat]_vars

\* SpecRace: two IPs send the same request; a request that exceeds the limit
\* is suspended in recordBlockedIp while further requests of either IP run,
\* and the window may run out meanwhile.
RaceIPs == {"ip1", "ip2"}

RaceLimit(ip) == IF ip = "ip1" THEN MaxRequests ELSE MaxOtherRequests

NextRace ==
    \/ Tick(TIME_WINDOW + 1, MaxThrottleTicks)
    \/ \E ip \in RaceIPs : /\ Sent(ip) < RaceLimit(ip)
                           /\ GateStart(ip, RepeatRequest)
    \/ \E k \in pending : GateBlockWritten(k)

SpecRace == InitThrottle /\ [][NextRace]_vars

\* The process is started again with USER_TOKEN_SECRET missing from its
\* environment: the tables keep their rows, the in-memory rateLimitMap starts
\* empty.
Redeploy ==
    /\ Quiet
    /\ ~InFlight(vp)
    /\ SecretSet(secret)
    /\ secret' = <<>>
    /\ rateLimitMap' = <<>>
    /\ reqLog' = <<>>
    /\ ev' = [op |-> "redeploy"]
    /\ UNCHANGED <<pending, now, ticks, logins, sessions, lp, op, vp, nonce, failures>>

\* A token built as generatePublicAuthToken builds it, for the empty secret:
\* its payload is the user id alone.
UnkeyedToken(u) == GeneratePublicAuthToken(<<>>, u, RandomPrefix(0), RandomSuffix(0))

\* Requests to a protected route and to /vailed that present such a token.
UnkeyedRequests ==
    { Request(url, FreshTs, None, None, Bearer \o UnkeyedToken(UserA),
              StrayToken, UserA) : url \in {WallpapersRoute, VailedUrl} }

\* SpecSecret: a deployment with or without the secret, which may be started
\* again without it; logins of one user (one handler at a time), and requests
\* to the gate and to /vailed that present the credentials issued so far, no
\* credentials, or a token built for the empty secret; no statement fails.
NextSecret ==
    \/ \E um \in AccessLogins : LoginStart(1, um[1], um[2])
    \/ Deactivate(1, FALSE)
    \/ InsertLogin(1, FALSE)
    \/ InsertSession(1, FALSE)
    \/ Redeploy
    \/ \E ip \in IPs : /\ Quiet
                       /\ Sent(ip) < MaxGateBurst
                       /\ \E req \in GateRequests \cup UnkeyedRequests : Gate(ip, req)
    \/ \E req \in VailedRequests \cup UnkeyedRequests : VailedLogin(req, FALSE)
    \/ VailedSession(FALSE)

SpecSecret == Init /\ [][NextSecret]_vars

----------------------------------------------------------------------------
(* Claims about the login registry *)

NoActive(u) == ActiveRows(u) = {}

\* The row of manage_logins that holds auth token t, if any.
RowsOfToken(t) == {i \in DOMAIN logins : logins[i].auth_token = t}

\* The last step was a login handler handing its tokens to the client.
LoginAnswered == ev.op = "login" /\ HandsTokens(ev.status)

\* C1: after a login that did not overlap with any other handler of the same
\* user and that answered with its tokens, exactly one row of the user is
\* active, and it is the row this login inserted.  Stated for the logins
\* whose own two inserts succeeded, so that the row of the most recent login
\* exists.
C1_SequentialLoginsOneActive ==
    (LoginAnswered /\ ev.overlap = {} /\ ev.rowInserted /\ ev.sessionInserted)
        => /\ RowsOfToken(ev.authToken) # {}
           /\ ActiveRows(ev.user) = RowsOfToken(ev.authToken)

\* C2: in every reachable state at most one row per user is active.
C2_AtMostOneActive ==
    \A u \in Users : Cardinality(ActiveRows(u)) <= 1

\* C3: once two overlapping logins of one user (and no logout) have both run
\* to completion, exactly one row of the user is active.
C3_RaceOnlyTransient ==
    (LoginAnswered /\ ev.overlap = {"login"} /\ Busy(ev.user) = {})
        => Cardinality(ActiveRows(ev.user)) = 1

\* The last step was POST /logout/:user_id answering 200.
LoggedOut == ev.op = "logout" /\ ev.status = "200"

\* Row i differs between rows and rows2 in is_logged_in at most.
SameButFlag(rows, rows2, i) == rows2[i] = [rows[i] EXCEPT !.is_logged_in = rows2[i].is_logged_in]

\* C14: the step in which a logout of a user answers 200 leaves no row of
\* that user active, changes nothing but the is_logged_in flag of that
\* user's rows, and leaves the rows of every other user and the table
\* sessions unchanged.
C14_LogoutRevokesOnlyThatUser ==
    [][LoggedOut'
        => /\ NoActive(ev.user)'
           /\ sessions' = sessions
           /\ DOMAIN logins' = DOMAIN logins
           /\ \A i \in DOMAIN logins :
                IF logins[i].user_id = ev'.user
                THEN SameButFlag(logins, logins', i)
                ELSE logins'[i] = logins[i]]_vars

\* A logout answered 200 for a user with a row while another user has an
\* active row and a session.
C14_Witness ==
    /\ LoggedOut
    /\ UserRows(ev.user) # {}
    /\ \E u \in Users : u # ev.user /\ ActiveRows(u) # {}
    /\ sessions # <<>>

\* The step is the first step of a call of POST /logout/:user_id for user u:
\* it answers at once or goes on to the update.
LogoutCall(u) ==
    /\ ~InFlight(op)
    /\ \/ ev'.op = "logout" /\ ev'.user = u
       \/ InFlight(op') /\ op'.user = u

\* The call neither succeeds nor reaches the update, and changes no table.
LogoutRefused ==
    /\ ~InFlight(op')
    /\ ev'.status # "200"
    /\ logins' = logins
    /\ sessions' = sessions

\* C15: a logout of a user with no active login is refused and changes
\* neither table; it answers 400 "No active session" unless its select
\* itself fails.  A logout that directly follows a logout of the same user
\* that answered 200 is refused too.
C15_LogoutOfInactiveUser ==
    [][\A u \in Users :
         /\ LogoutCall(u) /\ NoActive(u)
              => /\ LogoutRefused
                 /\ failures' = failures => ev'.status = "400"
         /\ LogoutCall(u) /\ LoggedOut /\ ev.user = u
              => LogoutRefused]_vars

\* A user who had logged in and logged out was answered 400 by a further
\* logout.
C15_Witness ==
    /\ ev.op = "logout"
    /\ ev.status = "400"
    /\ UserRows(ev.user) # {}
    /\ NoActive(ev.user)

\* The step is the deactivating update of a login of user u, or the update
\* of a logout of user u.
RevokingStep(u) ==
    \/ \E p \in Procs : /\ lp[p].pc = "deactivate"
                         /\ lp[p].user = u
                         /\ lp'[p].pc # "deactivate"
    \/ /\ op.pc = "update"
       /\ op.user = u
       /\ op'.pc = "idle"

SessionsOfLogin(i) ==
    {j \in DOMAIN sessions : sessions[j].session_id = logins[i].session_id}

LoginsOfSession(j) ==
    {i \in DOMAIN logins : logins[i].session_id = sessions[j].session_id}

\* C20: while no login handler is in flight, every row of manage_logins has
\* exactly one row of sessions with its session_id and every row of sessions
\* has exactly one row of manage_logins with its session_id.
C20_OneToOne ==
    (\A p \in Procs : ~InFlight(lp[p]))
        => /\ \A i \in DOMAIN logins : Cardinality(SessionsOfLogin(i)) = 1
           /\ \A j \in DOMAIN sessions : Cardinality(LoginsOfSession(j)) = 1

\* The last step was a password login answering with an error, with no other
\* handler of the same user in flight during the login.
PasswordLoginFailed ==
    /\ ev.op = "login"
    /\ ev.method = "public"
    /\ ev.status = "500"
    /\ ev.overlap = {}

\* C26: after such a login, the rows of the user that were active when the
\* login began are still active.
C26_FailedLoginKeepsSession ==
    PasswordLoginFailed
        => \A i \in ev.activeBefore : logins[i].is_logged_in

\* A row of manage_logins holds auth token t and a row of sessions holds
\* session token st under the session_id of that row.
Persisted(t, st) ==
    \E i \in RowsOfToken(t) :
        \E j \in SessionsOfLogin(i) : sessions[j].session_token = st

\* C27: when a login hands an auth token and a session token to the client,
\* the row of manage_logins with that auth token and the row of sessions with
\* that session token, under one session_id, are in the tables.
C27_HandedTokensArePersisted ==
    LoginAnswered => Persisted(ev.authToken, ev.sessionToken)

----------------------------------------------------------------------------
(* Claims about the gate *)

\* The last step was the gate answering a request to a route that requires
\* authentication.
GateAnswered == ev.op = "gate" /\ IsProtectedRoute(ev.req.url)

\* The session tokens stored for the session of row i of manage_logins.
SessionTokensOf(i) ==
    {sessions[j].session_token :
        j \in {k \in DOMAIN sessions : sessions[k].session_id = logins[i].session_id}}

\* The request presents the auth token of row i with its session token, and
\* neither a login nor an authentication header.
Presents(i) ==
    /\ ev.req.authorization = Bearer \o logins[i].auth_token
    /\ ev.req.sessionToken \in SessionTokensOf(i)
    /\ ev.req.login = None
    /\ ev.req.authentication = None

\* A later login of the same user followed the login of row i.
Superseded(i) == \E k \in DOMAIN logins : k > i /\ logins[k].user_id = logins[i].user_id

Allowed == ev.status = "next"

\* C4: after a user logged in (tok1) and then logged in again (tok2), a
\* request presenting tok1 with its session token is denied and a request
\* presenting tok2 with its session token is allowed.
C4_OldTokenDeniedNewAllowed ==
    \A i \in DOMAIN logins :
        (GateAnswered /\ Presents(i) /\ ActiveRows(logins[i].user_id) # {})
            => /\ Superseded(i) => ~Allowed
               /\ (~Superseded(i) /\ logins[i].is_logged_in) => Allowed

\* C5: after a logout of the user, and until the user logs in again, a
\* request replaying the auth token and session token of a login from before
\* the logout is denied by the gate.
C5_DeniedAfterLogout ==
    \A i \in DOMAIN logins :
        (GateAnswered /\ Presents(i) /\ NoActive(logins[i].user_id))
            => ~Allowed

\* C6: a request that presents the auth token and session token of a row
\* that is still is_logged_in, at a time later than the row's expires_at, is
\* answered 401.
C6_DeniedAfterExpiry ==
    \A i \in DOMAIN logins :
        (GateAnswered /\ Presents(i) /\ logins[i].is_logged_in
            /\ now > logins[i].expires_at)
            => ev.status = "401"

\* The auth token the request carries after "Bearer ".
PresentedToken == Slice(ev.req.authorization, 7, Len(ev.req.authorization))

\* The three checks agree on row i: the presented auth token decodes to the
\* user id of the row, the row holds that token and is active and unexpired,
\* and the presented session token is the one of the row's session.
ChecksAgree(i) ==
    /\ StartsWith(ev.req.authorization, Bearer)
    /\ ExtractUserIdFromAuthToken(secret, PresentedToken)
            = [ok |-> TRUE, userId |-> logins[i].user_id]
    /\ logins[i].auth_token = PresentedToken
    /\ logins[i].is_logged_in
    /\ now <= logins[i].expires_at
    /\ ev.req.sessionToken \in SessionTokensOf(i)

\* C7: a request to a route that requires authentication proceeds to its
\* handler only if the three checks agree on some row of manage_logins,
\* whatever headers it carries.
C7_AllThreeChecksAgree ==
    (GateAnswered /\ Allowed) => \E i \in DOMAIN logins : ChecksAgree(i)

\* C8: a request that passes the throttle with a fresh ts token, the auth
\* token and session token of an active, unexpired login and the matching
\* x-user-id is allowed, and the user id attached to the request is the user
\* id that logged in.
C8_AllowPath ==
    \A i \in DOMAIN logins :
        (GateAnswered /\ Presents(i) /\ ev.status # "429"
            /\ ev.req.ts = FreshTs
            /\ ev.req.userId = logins[i].user_id
            /\ logins[i].is_logged_in /\ now <= logins[i].expires_at)
            => /\ Allowed
               /\ ev.authenticated
               /\ ev.userId = logins[i].user_id

\* The gate let the second login of a user through, with the user id
\* attached, on the credentials that login issued.
C8_Witness ==
    /\ GateAnswered
    /\ Allowed
    /\ ev.authenticated
    /\ ev.userId = UserA
    /\ \E i \in DOMAIN logins :
            /\ i > 1
            /\ Presents(i)
            /\ ev.req.userId = logins[i].user_id
            /\ logins[i].is_logged_in
            /\ now <= logins[i].expires_at

\* C16: while the secret is unset, no login hands tokens to the client, the
\* gate lets no request to a protected route through, and /vailed reports
\* no session valid.
C16_NothingWithoutSecret ==
    ~SecretSet(secret)
        => /\ ev.op = "login" => ~HandsTokens(ev.status)
           /\ (ev.op = "gate" /\ IsProtectedRoute(ev.req.url)) => ev.status # "next"
           /\ ev.op = "vailed" => ev.status # "200"

\* The last step was /vailed reporting the session valid.
ReportedValid == ev.op = "vailed" /\ ev.status = "200"

\* C17: after /vailed has reported a session valid, the row of sessions with
\* the presented session token has last_access at the time of the validation.
C17_LastAccessUpdated ==
    ReportedValid
        => \A j \in DOMAIN sessions :
             sessions[j].session_token = ev.req.sessionToken
                => sessions[j].last_access = now

\* The step is a query of /vailed that returns an error, and /vailed answers.
LookupFailed == failures' = failures + 1 /\ ev'.op = "vailed"

\* C23: when the query on manage_logins or the query on sessions of a
\* validation returns an error, /vailed answers 500.
C23_LookupFailureIs500 ==
    [][LookupFailed => ev'.status = "500"]_vars

\* The last step was the gate's credential step on a request to a protected
\* route whose x-user-id is present and differs from the user id embedded in
\* its auth token.
IdMismatch ==
    /\ ev.op = "gate"
    /\ ev.step = "auth"
    /\ IsProtectedRoute(ev.req.url)
    /\ StartsWith(ev.req.authorization, Bearer)
    /\ ev.req.userId # <<>>
    /\ LET extracted == ExtractUserIdFromAuthToken(secret, PresentedToken)
       IN  extracted.ok /\ extracted.userId # ev.req.userId

\* C24: such a request is answered 401, and not by one of the two lookups.
C24_IdMismatchDenied ==
    IdMismatch
        => /\ ev.status = "401"
           /\ ev.error \notin {"Session expired or user not logged in", "Invalid session"}

\* The answers with which the gate denies a request.
Denied(status) == status \in {"429", "400", "401"}

\* The step is the first step of a login handler / of the logout handler.
LoginHandlerStarts ==
    \/ \E p \in Procs : ~InFlight(lp[p]) /\ InFlight(lp'[p])
    \/ ev'.op = "login" /\ lp' = lp

LogoutHandlerStarts ==
    ~InFlight(op) /\ (InFlight(op') \/ ev'.op = "logout")

\* C25: the step in which the gate denies a request changes neither table
\* and starts no handler; a route handler only starts on a request to its
\* route that has just been handed on with next().
C25_DenialChangesNoRegistry ==
    [][/\ (ev'.op = "gate" /\ Denied(ev'.status))
            => /\ logins' = logins
               /\ sessions' = sessions
               /\ lp' = lp /\ op' = op /\ vp' = vp
       /\ (LoginHandlerStarts \/ LogoutHandlerStarts)
            => /\ ev.op \in {"gate", "exempt"}
               /\ ev.status = "next"
               /\ ev.req.url = IF LogoutHandlerStarts THEN LogoutUrl
                                ELSE IF ev.op = "gate" THEN LoginUrl
                                ELSE GooglePath \o CallbackSuffix]_vars

\* A request to the logout route of a user with an active login was denied
\* with 429, and the login is still active.
C25_Witness ==
    /\ ev.op = "gate"
    /\ ev.status = "429"
    /\ ev.req.url = LogoutUrl
    /\ ActiveRows(UserA) # {}

\* What GET /vailed answers for x-user-id userId, auth token authToken and
\* x-session-token sessionToken when both of its queries read the present
\* tables at the present time: TRUE for 200 "Session is valid.".
VailedValid(userId, authToken, sessionToken) ==
    /\ userId # <<>>
    /\ authToken # <<>> /\ sessionToken # <<>>
    /\ VerifyAuthToken(secret, authToken, userId)
    /\ Single(LoginRowsOf(userId, authToken))
    /\ LET loginData == logins[CHOOSE i \in LoginRowsOf(userId, authToken) : TRUE]
       IN  /\ ~(now > loginData.expires_at)
           /\ Single(SessionRowsOf(loginData.session_id, sessionToken))

\* C30: every user id, auth token and session token with which the gate lets
\* a request to a protected route through as authenticated is reported valid
\* by /vailed in the same tables at the same time.
C30_GateAsStrictAsVailed ==
    (ev.op = "gate" /\ ev.status = "next" /\ ev.authenticated
        /\ IsProtectedRoute(ev.req.url))
        => VailedValid(ev.userId, PresentedToken, ev.req.sessionToken)

\* The last step was a validation that succeeded: the gate let a request
\* through as authenticated, or /vailed reported the session valid.
Validated ==
    \/ ev.op = "gate" /\ ev.status = "next" /\ ev.authenticated
    \/ ReportedValid

\* C28: a validation succeeds only for an auth token and a session token of
\* one login: the session token is the one stored under the session_id of
\* the row that holds the auth token.
C28_TokensOfOneLogin ==
    Validated => Persisted(PresentedToken, ev.req.sessionToken)

----------------------------------------------------------------------------
(* Claims about the throttle *)

\* The last step was a request of an IP all of whose requests so far,
\* this one included, were sent within one 15-second window.
InOneWindow ==
    /\ ev.op = "gate"
    /\ now - reqLog[ev.ip].first <= 15 * 1000

\* C10: of the requests one IP sends within a single 15-second window, the
\* first 50 pass the throttle check (none is answered 429), and the 51st is
\* answered 429 and leaves the IP blocked.
C10_FiftyFirstBlocked ==
    InOneWindow
        => /\ reqLog[ev.ip].sent <= 50 => ev.status # "429"
           /\ reqLog[ev.ip].sent = 51
                => /\ ev.status = "429"
                   /\ ev.ip \in DOMAIN rateLimitMap
                   /\ now < rateLimitMap[ev.ip].blockUntil

\* The 51st request of a window in which time has passed was answered 429 and
\* the IP is blocked for BLOCK_INCREMENT from now.
C10_Witness ==
    /\ InOneWindow
    /\ reqLog[ev.ip].sent = 51
    /\ now > reqLog[ev.ip].first
    /\ ev.status = "429"
    /\ rateLimitMap[ev.ip].blockUntil = now + BLOCK_INCREMENT

\* The last step was the first request of an IP at or after the end of its
\* block: the IP has been blocked, and its window was opened before the block
\* ended.
FirstAfterBlock ==
    /\ ev.op = "gate"
    /\ ev.rateBefore.blockUntil > 0
    /\ ev.rateBefore.firstRequestTime < ev.rateBefore.blockUntil
    /\ now >= ev.rateBefore.blockUntil

\* C11: the first request a blocked IP sends at or after blockUntil passes
\* the throttle check, and the window is reset to count 1.
C11_UnblockedAfterBlockUntil ==
    FirstAfterBlock
        => /\ ev.status # "429"
           /\ rateLimitMap[ev.ip].requestCount = 1
           /\ rateLimitMap[ev.ip].firstRequestTime = now

\* A request sent exactly at blockUntil passed the throttle check.
C11_Witness ==
    /\ FirstAfterBlock
    /\ now = ev.rateBefore.blockUntil
    /\ ev.status # "429"
    /\ rateLimitMap[ev.ip].requestCount = 1

\* The last step handed a request to its route handler.
ReachedHandler ==
    \/ ev.op = "exempt"
    \/ ev.op = "gate" /\ ev.status = "next"

\* The request of the last step was checked against its IP's block and
\* counted against its IP's window.
Throttled ==
    /\ ~(now < ev.rateBefore.blockUntil)
    /\ ev.ip \in DOMAIN rateLimitMap
    /\ \/ rateLimitMap[ev.ip].requestCount = ev.rateBefore.requestCount + 1
       \/ /\ rateLimitMap[ev.ip].requestCount = 1
          /\ rateLimitMap[ev.ip].firstRequestTime = now

\* C12: no request, on any route, reaches a route handler without having
\* been counted against its IP's window and checked against its block.
C12_ThrottleOnEveryRoute == ReachedHandler => Throttled

\* The last step was a request that got past the freshness step of the gate.
PastFreshness == ev.op = "gate" /\ ev.step = "auth"

\* C13: every request that gets past the freshness step supplied a ts token
\* that decodes to a generatedAt timestamp no older than 20 seconds.
C13_FreshnessBoundsEveryRequest ==
    PastFreshness
        => /\ ev.req.ts.json = "object"
           /\ ev.req.ts.hasGeneratedAt
           /\ now - ev.req.ts.generatedAt <= 20 * 1000

\* The ts token is missing or does not decode to an object that carries a
\* generatedAt timestamp.
MalformedTs(ts) == ts.json # "object" \/ ~ts.hasGeneratedAt

\* C21: a request that passes the throttle with such a ts token is answered
\* 400: it is neither passed on nor answered 500.
C21_MalformedTsDenied400 ==
    (ev.op = "gate" /\ ev.step # "throttle" /\ MalformedTs(ev.req.ts))
        => ev.status = "400"

\* C22: every block imposed on an IP after an earlier block of that IP is
\* longer than the block before it.
C22_BlocksGrow ==
    \A ip \in DOMAIN reqLog :
        \A k \in 2..Len(reqLog[ip].blocks) :
            reqLog[ip].blocks[k] > reqLog[ip].blocks[k - 1]

\* The entry of ip in rateLimitMap is the same before and after the step.
SameRateData(ip) ==
    /\ ip \in DOMAIN rateLimitMap' <=> ip \in DOMAIN rateLimitMap
    /\ ip \in DOMAIN rateLimitMap => rateLimitMap'[ip] = rateLimitMap[ip]

\* C29: in every interleaving, at most 50 requests of an IP pass the throttle
\* between two starts of its window, and a step of the middleware for a
\* request of one IP leaves the entry of every other IP unchanged.
C29_FiftyPerWindowInterleaved ==
    [][/\ \A ip \in RaceIPs : Passed(ip)' <= 50
       /\ ev'.op \in {"gate", "gateStep"}
            => \A ip \in RaceIPs \ {ev'.ip} : SameRateData(ip)]_vars

\* Two requests of one IP are suspended in recordBlockedIp after 50 of its
\* requests have passed, and the other IP has sent a request.
C29_Witness ==
    /\ Cardinality({k \in pending : k.ip = "ip1"}) >= 2
    /\ Passed("ip1") = 50
    /\ "ip2" \in DOMAIN rateLimitMap

----------------------------------------------------------------------------
(* The codec specification: the three functions of the token codec applied   *)
(* to bounded inputs, under every secret of bounded length.                  *)

CodecSecrets == Strs(MaxSecretLen)

CodecUserIds == Strs(MaxIdLen)

\* Token strings that were not minted: a well-formed prefix and suffix around
\* the base64 of an arbitrary short string, and strings too short to hold a
\* payload.
ForgedTokens ==
    {RandomPrefix(1) \o B64Encode(m) \o RandomSuffix(1) : m \in Strs(MaxForgedLen)}
    \cup {RandomPrefix(1), RandomPrefix(1) \o RandomSuffix(1)}

InitCodec ==
    /\ secret \in CodecSecrets
    /\ now = 0
    /\ ticks = 0
    /\ logins = <<>>
    /\ sessions = <<>>
    /\ lp = [p \in Procs |-> IdleLogin]
    /\ op = IdleLogout
    /\ vp = IdleVailed
    /\ rateLimitMap = <<>>
    /\ reqLog = <<>>
    /\ nonce = 0
    /\ failures = 0
    /\ pending = {}
    /\ ev = [op |-> "init"]

CodecUnchanged ==
    UNCHANGED <<pending, secret, now, ticks, logins, sessions, lp, op, vp, rateLimitMap, reqLog,
                nonce, failures>>

\* Each behaviour of the codec specification applies the codec once.
CodecIdle == ev.op = "init"

\* mint, then verify and extract what was minted.
CodecRoundTrip(userId, i, j) ==
    /\ CodecIdle
    /\ SecretSet(secret)
    /\ LET t == GeneratePublicAuthToken(secret, userId, RandomPrefix(i), RandomSuffix(j))
       IN  ev' = [op |-> "roundTrip", userId |-> userId, token |-> t,
                  verified |-> VerifyAuthToken(secret, t, userId),
                  extracted |-> ExtractUserIdFromAuthToken(secret, t)]
    /\ CodecUnchanged

\* generatePublicAuthToken throws when the secret is unset.
CodecMintThrows(userId) ==
    /\ CodecIdle
    /\ ~SecretSet(secret)
    /\ ev' = [op |-> "mintThrows", userId |-> userId]
    /\ CodecUnchanged

\* verify and extract applied to a token that was not minted.
CodecCheck(t, userId) ==
    /\ CodecIdle
    /\ ev' = [op |-> "check", userId |-> userId, token |-> t,
              verified |-> VerifyAuthToken(secret, t, userId),
              extracted |-> ExtractUserIdFromAuthToken(secret, t)]
    /\ CodecUnchanged

NextCodec ==
    \/ \E u \in CodecUserIds, i \in 1..MaxNonce, j \in 1..MaxNonce : CodecRoundTrip(u, i, j)
    \/ \E u \in CodecUserIds : CodecMintThrows(u)
    \/ \E t \in ForgedTokens, u \in CodecUserIds : CodecCheck(t, u)

SpecCodec == InitCodec /\ [][NextCodec]_vars

\* C9: for every user id and every non-empty secret, verify(mint(userId),
\* userId) is true and the gate's extraction applied to mint(userId) returns
\* exactly userId.
C9_RoundTrip ==
    ev.op = "roundTrip"
        => /\ ev.verified
           /\ ev.extracted = [ok |-> TRUE, userId |-> ev.userId]

\* A token was minted under a secret of odd length for a non-empty user id,
\* and went through verify and extract.
C9_Witness ==
    /\ ev.op = "roundTrip"
    /\ Len(secret) = 3
    /\ Len(ev.userId) = MaxIdLen
    /\ ev.verified
    /\ ev.extracted.ok


\* C18: whenever extractUserIdFromAuthToken returns a user id for a token,
\* verifyAuthToken accepts the token for that user id, under every secret.
C18_ExtractedIdVerifies ==
    (ev.op \in {"check", "roundTrip"} /\ ev.extracted.ok)
        => VerifyAuthToken(secret, ev.token, ev.extracted.userId)

============================================================================
